---------------------------- MODULE Spec2Model ----------------------------
(***************************************************************************)
(* Correlation routes, result cache and correlation engine of the          *)
(* Visual-Financial-Analyses backend.                                      *)
(*                                                                         *)
(*   routes   : src/unnamed/part_003   (GET /correlations, POST /refresh)   *)
(*   cache    : src/functions/src/services/s3.js   (saveToS3, getFromS3)    *)
(*   engine   : src/functions/src/services/stockData.js:71-196              *)
(*                                                                         *)
(* A JavaScript string is a sequence of one-character strings; Ord gives   *)
(* the UTF-16 code unit of a character, which is what Array.prototype.sort *)
(* and String.prototype.trim / toUpperCase work on.                        *)
(***************************************************************************)
EXTENDS Integers, Sequences, FiniteSets, TLC

(***************************************************************************)
(* JavaScript strings                                                      *)
(***************************************************************************)

\* The characters the model's strings are made of, in code-unit order.
Alphabet ==
  << " ", ",", "-", ".", "/",
     "A", "B", "C", "D", "E", "F", "G", "H", "I", "J", "K", "L", "M",
     "N", "O", "P", "Q", "R", "S", "T", "U", "V", "W", "X", "Y", "Z",
     "a", "b", "c", "d", "e", "f", "g", "h", "i", "j", "k", "l", "m",
     "n", "o", "p", "q", "r", "s", "t", "u", "v", "w", "x", "y", "z" >>

\* Code-unit order of a character: its position in Alphabet.
Ord(c) == CHOOSE i \in 1..Len(Alphabet) : Alphabet[i] = c

\* a < b as the default comparator of Array.prototype.sort compares two
\* strings: code unit by code unit, a proper prefix first.
RECURSIVE StrLess(_, _)
StrLess(a, b) ==
  IF b = <<>> THEN FALSE
  ELSE IF a = <<>> THEN TRUE
  ELSE IF Head(a) = Head(b) THEN StrLess(Tail(a), Tail(b))
  ELSE Ord(Head(a)) < Ord(Head(b))

\* String.prototype.toUpperCase on one character.
UpperChar(c) ==
  IF Ord(c) >= Ord("a") /\ Ord(c) <= Ord("z")
  THEN Alphabet[Ord(c) - Ord("a") + Ord("A")]
  ELSE c

toUpperCase(s) == [i \in 1..Len(s) |-> UpperChar(s[i])]

IsSpace(c) == c = " "

\* String.prototype.trim: leading and trailing white space removed.
RECURSIVE TrimStart(_)
TrimStart(s) ==
  IF s # <<>> /\ IsSpace(Head(s)) THEN TrimStart(Tail(s)) ELSE s

RECURSIVE TrimEnd(_)
TrimEnd(s) ==
  IF s # <<>> /\ IsSpace(s[Len(s)]) THEN TrimEnd(SubSeq(s, 1, Len(s) - 1)) ELSE s

trim(s) == TrimEnd(TrimStart(s))

\* String.prototype.split(sep) for a one-character separator: always at
\* least one piece; a trailing separator yields a trailing empty piece.
RECURSIVE split(_, _)
split(s, sep) ==
  IF \E i \in 1..Len(s) : s[i] = sep
  THEN LET i == CHOOSE k \in 1..Len(s) :
                  s[k] = sep /\ \A m \in 1..(k - 1) : s[m] # sep
       IN  <<SubSeq(s, 1, i - 1)>> \o split(SubSeq(s, i + 1, Len(s)), sep)
  ELSE <<s>>

\* Array.prototype.join(sep).
RECURSIVE join(_, _)
join(a, sep) ==
  IF a = <<>> THEN <<>>
  ELSE IF Len(a) = 1 THEN a[1]
  ELSE a[1] \o sep \o join(Tail(a), sep)

\* Insertion of x into an ascending array, after the elements not greater.
RECURSIVE Insert(_, _)
Insert(x, a) ==
  IF a = <<>> THEN <<x>>
  ELSE IF StrLess(x, Head(a)) THEN <<x>> \o a
  ELSE <<Head(a)>> \o Insert(x, Tail(a))

\* Array.prototype.sort() with the default comparator, on a copy.
RECURSIVE sort(_)
sort(a) == IF a = <<>> THEN <<>> ELSE Insert(a[Len(a)], sort(SubSeq(a, 1, Len(a) - 1)))

(***************************************************************************)
(* Cache key                                                               *)
(***************************************************************************)

KeyPrefix == << "c", "o", "r", "r", "e", "l", "a", "t", "i", "o", "n", "s", "/" >>
KeySuffix == << ".", "j", "s", "o", "n" >>

\* The key of the tickers in the order given.
getCacheKey_unsorted(tickers) == KeyPrefix \o join(tickers, <<"-">>) \o KeySuffix

\* part_003:9-12
getCacheKey(tickers) == KeyPrefix \o join(sort(tickers), <<"-">>) \o KeySuffix


\* stockData.js:128: a series needs more than this many prices.
MinPoints == 10

\* stockData.js:167: the edge cutoff 0.6, in hundredths.
ThresholdPct == 60

(***************************************************************************)
(* Numbers                                                                 *)
(*                                                                         *)
(* A correlation is kept exactly: the record [s, p, q] is the real number  *)
(* s * sqrt(p / q), with s its sign (-1, 0, 1) and p / q in lowest terms.  *)
(* NaN is the result of 0 / 0.                                             *)
(***************************************************************************)

\* NaN, the result of 0 / 0.
NaN == [nan |-> TRUE]

RECURSIVE Gcd(_, _)
Gcd(a, b) == IF b = 0 THEN a ELSE Gcd(b, a % b)

Sign(n) == IF n > 0 THEN 1 ELSE IF n < 0 THEN -1 ELSE 0

\* The number num / sqrt(den2), for den2 > 0.
Real(num, den2) ==
  IF num = 0 THEN [s |-> 0, p |-> 0, q |-> 1]
  ELSE LET g == Gcd(num * num, den2)
       IN  [s |-> Sign(num), p |-> (num * num) \div g, q |-> den2 \div g]

\* The literal 1.0.
One == [s |-> 1, p |-> 1, q |-> 1]

\* x > pct / 100 as JavaScript compares numbers: false when x is NaN.
GreaterThanPct(x, pct) ==
  /\ x # NaN
  /\ x.s = 1
  /\ 10000 * x.p > pct * pct * x.q

\* Math.round(x * 100), for x >= 0: the k with k - 0.5 <= 100 x < k + 0.5.
RoundPct(x) ==
  CHOOSE k \in 0..100 :
    /\ (k = 0 \/ (2 * k - 1) * (2 * k - 1) * x.q <= 40000 * x.p)
    /\ (2 * k + 1) * (2 * k + 1) * x.q > 40000 * x.p

RECURSIVE Sum(_)
Sum(a) == IF a = <<>> THEN 0 ELSE Head(a) + Sum(Tail(a))

\* Array.prototype.slice(-n): the last n elements; slice(-0) is slice(0),
\* the whole array.
SliceLast(a, n) ==
  IF n = 0 \/ n >= Len(a) THEN a ELSE SubSeq(a, Len(a) - n + 1, Len(a))

Min(a, b) == IF a < b THEN a ELSE b

\* Array.prototype.filter keeps the order; it is SelectSeq of Sequences.

(***************************************************************************)
(* Correlation engine (stockData.js:71-196)                                *)
(***************************************************************************)

\* stockData.js:4-15
STOCKS ==
  [ tech       |-> << <<"A","A","P","L">>, <<"G","O","O","G","L">>, <<"N","V","D","A">>,
                      <<"M","S","F","T">>, <<"A","M","Z","N">>, <<"M","E","T","A">>,
                      <<"T","S","L","A">>, <<"A","M","D">> >>,
    energy     |-> << <<"X","O","M">>, <<"C","V","X">>, <<"C","O","P">>,
                      <<"S","L","B">>, <<"O","X","Y">> >>,
    finance    |-> << <<"J","P","M">>, <<"B","A","C">>, <<"G","S">>, <<"V">>, <<"M","A">> >>,
    healthcare |-> << <<"J","N","J">>, <<"P","F","E">>, <<"U","N","H">>,
                      <<"M","R","K">>, <<"A","B","B","V">> >>,
    consumer   |-> << <<"W","M","T">>, <<"K","O">>, <<"P","E","P">>,
                      <<"M","C","D">>, <<"N","K","E">> >> ]

\* Object.entries(STOCKS) order.
SectorOrder == << "tech", "energy", "finance", "healthcare", "consumer" >>

\* stockData.js:104-109
getSector(ticker) ==
  IF \E i \in 1..Len(SectorOrder) :
       \E j \in 1..Len(STOCKS[SectorOrder[i]]) : STOCKS[SectorOrder[i]][j] = ticker
  THEN SectorOrder[CHOOSE i \in 1..Len(SectorOrder) :
         /\ \E j \in 1..Len(STOCKS[SectorOrder[i]]) : STOCKS[SectorOrder[i]][j] = ticker
         /\ \A k \in 1..(i - 1) :
              \A j \in 1..Len(STOCKS[SectorOrder[k]]) : STOCKS[SectorOrder[k]][j] # ticker]
  ELSE "unknown"

\* The provider's answer to one chart request: ok = FALSE is a failed call
\* (network error, non-2xx, no chart.result[0]); close is
\* result.indicators.quote[0].close, with null for the days without a price.
\* A null entry of the close array (prices are positive numbers).
Null == -1

NoAnswer == [ok |-> FALSE, close |-> <<>>]

Answer(prov, ticker) == IF ticker \in DOMAIN prov THEN prov[ticker] ELSE NoAnswer

NotNull(price) == price # Null

\* stockData.js:75-93: the non-null closing prices, or the error rethrown.
getHistoricalPrices(prov, ticker) ==
  IF Answer(prov, ticker).ok
  THEN [threw |-> FALSE, prices |-> SelectSeq(Answer(prov, ticker).close, NotNull)]
  ELSE [threw |-> TRUE, prices |-> <<>>]

\* The correlation with 1 where the division is 0 / 0.
sampleCorrelation_oneForConstant(x, y) ==
  LET n   == Len(x)
      sxy == n * Sum([i \in 1..n |-> x[i] * y[i]]) - Sum(x) * Sum(y)
      sxx == n * Sum([i \in 1..n |-> x[i] * x[i]]) - Sum(x) * Sum(x)
      syy == n * Sum([i \in 1..n |-> y[i] * y[i]]) - Sum(y) * Sum(y)
  IN  IF sxx * syy = 0 THEN One ELSE Real(sxy, sxx * syy)

\* simple-statistics sampleCorrelation(x, y) =
\*   sampleCovariance(x, y) / (sampleStandardDeviation(x) * sampleStandardDeviation(y)),
\* for two series of the same length n >= 2; 0 / 0 = NaN for a constant series.
sampleCorrelation(x, y) ==
  LET n   == Len(x)
      sxy == n * Sum([i \in 1..n |-> x[i] * y[i]]) - Sum(x) * Sum(y)
      sxx == n * Sum([i \in 1..n |-> x[i] * x[i]]) - Sum(x) * Sum(x)
      syy == n * Sum([i \in 1..n |-> y[i] * y[i]]) - Sum(y) * Sum(y)
  IN  IF sxx * syy = 0 THEN NaN ELSE Real(sxy, sxx * syy)

\* The second series cut from its start instead of its end.
calculateCorrelation_fromStart(pricesA, pricesB) ==
  LET minLength == Min(Len(pricesA), Len(pricesB))
      trimmedA  == SliceLast(pricesA, minLength)
      trimmedB  == SubSeq(pricesB, 1, minLength)
  IN  sampleCorrelation(trimmedA, trimmedB)

\* stockData.js:96
minLength(pricesA, pricesB) == Min(Len(pricesA), Len(pricesB))

\* stockData.js:97
trimmedA(pricesA, pricesB) == SliceLast(pricesA, minLength(pricesA, pricesB))

\* stockData.js:98
trimmedB(pricesA, pricesB) == SliceLast(pricesB, minLength(pricesA, pricesB))

\* stockData.js:95-101
calculateCorrelation(pricesA, pricesB) ==
  sampleCorrelation(trimmedA(pricesA, pricesB), trimmedB(pricesA, pricesB))

\* Mock prices in place of the empty series of a failed fetch, as
\* getCurrentPrices does (stockData.js:42-50).
MockPrices == << 1, 2, 3, 1, 2, 3, 1, 2, 3, 1, 2, 3 >>

fetchHistoricalData_mock(prov, tickers) ==
  [i \in 1..Len(tickers) |->
     LET h == getHistoricalPrices(prov, tickers[i])
     IN  [ticker |-> tickers[i],
          prices |-> IF h.threw THEN MockPrices ELSE h.prices,
          sector |-> getSector(tickers[i])]]

\* stockData.js:115-125: one entry per requested ticker, in request order;
\* a failed fetch is caught and becomes an empty series.
fetchHistoricalData(prov, tickers) ==
  [i \in 1..Len(tickers) |->
     LET h == getHistoricalPrices(prov, tickers[i])
     IN  [ticker |-> tickers[i],
          prices |-> IF h.threw THEN <<>> ELSE h.prices,
          sector |-> getSector(tickers[i])]]

\* The filter with >= for >.
HasEnoughPrices_atLeast(d) == Len(d.prices) >= MinPoints

\* stockData.js:128
HasEnoughPrices(d) == Len(d.prices) > MinPoints


\* The matrix with the diagonal computed like every other entry.
buildMatrix_computedDiagonal(validData) ==
  [i \in 1..Len(validData) |->
     [j \in 1..Len(validData) |->
        calculateCorrelation(validData[i].prices, validData[j].prices)]]

\* stockData.js:132-150: the matrix over validData, row by row.
buildMatrix(validData) ==
  [i \in 1..Len(validData) |->
     [j \in 1..Len(validData) |->
        IF i = j THEN One
        ELSE calculateCorrelation(validData[i].prices, validData[j].prices)]]

\* stockData.js:156-176: the pairs i < j in loop order.
RECURSIVE PairsFrom(_, _, _)
PairsFrom(i, j, n) ==
  IF i > n THEN <<>>
  ELSE IF j > n THEN PairsFrom(i + 1, i + 2, n)
  ELSE <<[i |-> i, j |-> j]>> \o PairsFrom(i, j + 1, n)

\* stockData.js:158-167: the pair is in one sector and above the cutoff.
IsEdge(validData, matrix, pr) ==
  /\ validData[pr.i].sector = validData[pr.j].sector
  /\ GreaterThanPct(matrix[pr.i][pr.j], ThresholdPct)

\* stockData.js:168-173; correlation is Math.round(c * 100) / 100, in hundredths.
makeEdge(validData, matrix, pr) ==
  [source      |-> validData[pr.i].ticker,
   target      |-> validData[pr.j].ticker,
   correlation |-> RoundPct(matrix[pr.i][pr.j]),
   sector      |-> validData[pr.i].sector]

RECURSIVE edgesOver(_, _, _)
edgesOver(validData, matrix, pairs) ==
  IF pairs = <<>> THEN <<>>
  ELSE (IF IsEdge(validData, matrix, Head(pairs))
        THEN <<makeEdge(validData, matrix, Head(pairs))>> ELSE <<>>)
       \o edgesOver(validData, matrix, Tail(pairs))

\* stockData.js:152-176
buildEdges(validData, matrix) ==
  edgesOver(validData, matrix, PairsFrom(1, 2, Len(validData)))

\* new Date(ms).toISOString(): the instant as an ISO-8601 string, to the
\* millisecond.
toISOString(ms) == [iso |-> ms]

\* Whether new Date(v).getTime() is a number: v is an ISO-8601 string, not
\* a missing field or a string that is no date (getTime is then NaN).
IsDate(v) == "iso" \in DOMAIN v

\* new Date(v).getTime() for a date string.
getTime(v) == v.iso

\* The result without a matrix when fewer than two tickers are valid.
correlationResult_noMatrixForOne(historicalData, time) ==
  LET validData == SelectSeq(historicalData, HasEnoughPrices)
      matrix    == IF Len(validData) < 2 THEN << >> ELSE buildMatrix(validData)
  IN  [stocks       |-> [i \in 1..Len(validData) |-> validData[i].ticker],
       matrix       |-> matrix,
       edges        |-> buildEdges(validData, matrix),
       calculatedAt |-> toISOString(time)]

\* stockData.js:127-184, from the fetched historicalData on. The constant
\* field sectors: STOCKS is left out of the record.
correlationResult(historicalData, time) ==
  LET validData == SelectSeq(historicalData, HasEnoughPrices)
      matrix    == buildMatrix(validData)
  IN  [stocks       |-> [i \in 1..Len(validData) |-> validData[i].ticker],
       matrix       |-> matrix,
       edges        |-> buildEdges(validData, matrix),
       calculatedAt |-> toISOString(time)]

\* stockData.js:111-190, for the ticker list the route passes (part_003:61,
\* 96), the provider's answers prov and the clock reading time.
calculateCorrelationMatrix(prov, tickers, time) ==
  correlationResult(fetchHistoricalData(prov, tickers), time)


\* JSON.stringify followed by JSON.parse of a result: NaN is written as
\* null, every other number and string reads back as it was.
JsonNull == [null |-> TRUE]

JsonNumber(x) == IF x = NaN THEN JsonNull ELSE x

toJSON(result) ==
  [stocks       |-> result.stocks,
   matrix       |-> [i \in 1..Len(result.matrix) |->
                       [j \in 1..Len(result.matrix[i]) |-> JsonNumber(result.matrix[i][j])]],
   edges        |-> result.edges,
   calculatedAt |-> result.calculatedAt]

(***************************************************************************)
(* Bounds and inputs                                                       *)
(***************************************************************************)

\* Requests issued in one behaviour.
MaxRequests == 2

\* Times the clock is advanced in one behaviour.
MaxTicks == 1

\* Length of the ticker lists the key and engine specifications draw.
MaxTickers == 3

\* The handler invocations that can be in flight at once.
Slots == {1, 2}

HourMs == 60 * 60 * 1000

\* The clock advances by one of these amounts.
TickSteps == {23 * HourMs, 24 * HourMs}

tV  == << "V" >>
tMA == << "M", "A" >>
tGS == << "G", "S" >>
tKO == << "K", "O" >>

Comma == << "," >>

\* req.query.tickers of GET /correlations: absent, or a string.
Undefined == [type |-> "undefined"]
Str(s) == [type |-> "string", value |-> s]
Arr(a) == [type |-> "array", value |-> a]

QueryInputs ==
  { Undefined,
    Str(tV),
    Str(tV \o Comma \o tMA),
    Str(<< "m", "a", ",", " ", "V" >>),
    Str(tV \o Comma \o tKO \o Comma) }

\* req.body.tickers of POST /correlations/refresh: absent, a string, or an
\* array of strings.
BodyInputs ==
  { Str(tV \o Comma \o tMA),
    Arr(<< tV >>),
    Arr(<< tMA, tV >>),
    Arr(<< << "m", "a" >>, tV >>),
    Arr(<< tKO, <<>> >>) }

\* Closing-price series.
Rising  == << 1, 1, 1, 1, 2, 2, 2, 2, 3, 3, 3, 3 >>
Falling == << 3, 3, 3, 3, 2, 2, 2, 2, 1, 1, 1, 1 >>
Bumpy   == << 1, 2, Null, 1, 2, 3, 2, 3, 3, 2, 3, 3 >>
Wavy    == << 2, 1, 2, 3, 2, 1, 2, 3, 2, 1, 2, 3, 3 >>
Flat    == << 2, 2, 2, 2, 2, 2, 2, 2, 2, 2, 2 >>
Sparse  == << 1, Null, 2, 2, Null, 3, 1, 2, 3, 3, 2, 1 >>
Choppy  == << 1, 1, 1, 1, 1, 1, 2, 3, 1, 2, 3, 3 >>

Ok(close) == [ok |-> TRUE, close |-> close]

\* What the price provider answers, per symbol as it appears in the URL.
\* A symbol that is not listed gets no answer.
AllMarkets ==
  { (tV :> Ok(Rising)) @@ (tMA :> Ok(Bumpy)) @@ (<< "m", "a" >> :> Ok(Bumpy))
      @@ (tGS :> Ok(Wavy)) @@ (tKO :> Ok(Rising)),
    (tV :> Ok(Rising)) @@ (tMA :> NoAnswer) @@ (<< "m", "a" >> :> NoAnswer)
      @@ (tGS :> Ok(Bumpy)) @@ (tKO :> Ok(Flat)),
    (tV :> Ok(Falling)) @@ (tMA :> Ok(Sparse)) @@ (<< "m", "a" >> :> Ok(Sparse))
      @@ (tGS :> Ok(Flat)) @@ (tKO :> NoAnswer) }


(***************************************************************************)
(* State                                                                   *)
(***************************************************************************)

VARIABLES
  now,            \* Date.now(), in milliseconds
  ticks,          \* how often the clock was advanced
  issued,         \* how many requests were issued
  s3,             \* the bucket: key -> stored JSON body
  pc,             \* per slot: where the handler is suspended
  route,          \* per slot: "get" or "refresh"
  input,          \* per slot: req.query.tickers or req.body.tickers
  tickers,        \* per slot: the handler's tickers
  cacheKey,       \* per slot: the handler's cacheKey
  cached,         \* per slot: what getFromS3 returned
  historicalData, \* per slot: the engine's historicalData
  correlations,   \* per slot: the handler's correlations
  res,            \* per slot: the response sent
  io,             \* per slot: the calls made to S3 and to the provider
  readAt,         \* per slot: Date.now() at the freshness test
  replaced,       \* per slot: the entry its saveToS3 overwrote
  lastRefresh,    \* the latest write to the bucket, when a refresh made it
  promises,       \* per slot: the promises handed to Promise.all, one per ticker
  settled,        \* per slot: the indices of the promises in the order they settled
  direct          \* a call of calculateCorrelation on its own: its arguments and what it did

vars == << now, ticks, issued, s3, pc, route, input, tickers, cacheKey, cached,
           historicalData, correlations, res, io, readAt, replaced, lastRefresh,
           promises, settled, direct >>

\* part_003:6
CACHE_DURATION_HOURS == 24

Nothing == [none |-> TRUE]
NoResponse == [status |-> 0]

\* res.status(code).json({error: {code, message}})
ErrorResponse(status, code) == [status |-> status, error |-> code]

\* res.json({...result, fromCache, refreshed})
ResultResponse(result, fromCache, refreshed) ==
  [status |-> 200, body |-> result, fromCache |-> fromCache, refreshed |-> refreshed]

\* No request was made yet: every handler local is unassigned.
NoRequests ==
  /\ now = 0
  /\ ticks = 0
  /\ issued = 0
  /\ pc = [p \in Slots |-> "idle"]
  /\ route = [p \in Slots |-> "none"]
  /\ input = [p \in Slots |-> Undefined]
  /\ tickers = [p \in Slots |-> << >>]
  /\ cacheKey = [p \in Slots |-> << >>]
  /\ cached = [p \in Slots |-> Nothing]
  /\ historicalData = [p \in Slots |-> << >>]
  /\ correlations = [p \in Slots |-> Nothing]
  /\ res = [p \in Slots |-> NoResponse]
  /\ io = [p \in Slots |-> << >>]
  /\ readAt = [p \in Slots |-> 0]
  /\ replaced = [p \in Slots |-> Nothing]
  /\ lastRefresh = Nothing
  /\ promises = [p \in Slots |-> << >>]
  /\ settled = [p \in Slots |-> << >>]

Init ==
  /\ NoRequests
  /\ s3 = << >>
  /\ direct = Nothing

\* No handler is suspended: every request issued so far has its response.
Quiet == \A p \in Slots : pc[p] \in {"idle", "done"}

\* Slot p takes a new request: a new invocation of the handler, with its
\* own locals.
Accept(p, kind, value) ==
  /\ pc[p] \in {"idle", "done"}
  /\ issued < MaxRequests
  /\ issued' = issued + 1
  /\ route' = [route EXCEPT ![p] = kind]
  /\ input' = [input EXCEPT ![p] = value]
  /\ cached' = [cached EXCEPT ![p] = Nothing]
  /\ historicalData' = [historicalData EXCEPT ![p] = << >>]
  /\ correlations' = [correlations EXCEPT ![p] = Nothing]
  /\ readAt' = [readAt EXCEPT ![p] = 0]
  /\ replaced' = [replaced EXCEPT ![p] = Nothing]
  /\ settled' = [settled EXCEPT ![p] = << >>]

\* tickersParam.split(',').map(t => t.trim().toUpperCase())   (part_003:28)
parseTickers(tickersParam) ==
  LET pieces == split(tickersParam, ",")
  IN  [i \in 1..Len(pieces) |-> toUpperCase(trim(pieces[i]))]

\* The calls calculateCorrelationMatrix issues at once: one chart request
\* per ticker (stockData.js:115-118).
FetchCalls(ts) ==
  [i \in 1..Len(ts) |-> [op |-> "fetch", arg |-> ts[i], outcome |-> "sent", close |-> << >>]]

\* A promise that has not settled, and one fulfilled with a value.
Pending == [state |-> "pending"]
Fulfilled(value) == [state |-> "fulfilled", value |-> value]

\* The array ALL_STOCKS.map(async ...) builds (stockData.js:116-124): one
\* promise per ticker, every chart request already sent.
FetchPromises(ts) == [i \in 1..Len(ts) |-> Pending]

\* !tickersParam   (part_003:19)
Falsy(v) == v.type = "undefined" \/ (v.type = "string" /\ v.value = << >>)

Respond(p, response) ==
  /\ res' = [res EXCEPT ![p] = response]
  /\ pc' = [pc EXCEPT ![p] = "done"]

\* part_003:14-42: GET /correlations up to the await of getFromS3.
GetCorrelations(p, tickersParam) ==
  /\ Accept(p, "get", tickersParam)
  /\ IF Falsy(tickersParam)
     THEN /\ Respond(p, ErrorResponse(400, "MISSING_TICKERS"))
          /\ tickers' = [tickers EXCEPT ![p] = << >>]
          /\ cacheKey' = [cacheKey EXCEPT ![p] = << >>]
          /\ io' = [io EXCEPT ![p] = << >>]
     ELSE /\ tickers' = [tickers EXCEPT ![p] = parseTickers(tickersParam.value)]
          /\ IF Len(tickers'[p]) < 2
             THEN /\ Respond(p, ErrorResponse(400, "INSUFFICIENT_TICKERS"))
                  /\ cacheKey' = [cacheKey EXCEPT ![p] = << >>]
                  /\ io' = [io EXCEPT ![p] = << >>]
             ELSE /\ cacheKey' = [cacheKey EXCEPT ![p] = getCacheKey(tickers'[p])]
                  /\ io' = [io EXCEPT ![p] =
                              << [op |-> "get", arg |-> cacheKey'[p], outcome |-> "sent"] >>]
                  /\ pc' = [pc EXCEPT ![p] = "getFromS3"]
                  /\ res' = [res EXCEPT ![p] = NoResponse]
  /\ promises' = [promises EXCEPT ![p] = << >>]
  /\ UNCHANGED << now, ticks, s3, lastRefresh, direct >>

\* The outcomes s3.getObject can have for a key.
GetOutcomes(key) == (IF key \in DOMAIN s3 THEN {"ok"} ELSE {"NoSuchKey"}) \cup {"error"}

\* s3.js:27-50: the parsed body, null for NoSuchKey; any other error is
\* rethrown.
getFromS3(key, outcome) ==
  IF outcome = "ok" THEN [threw |-> FALSE, data |-> s3[key]]
  ELSE IF outcome = "NoSuchKey" THEN [threw |-> FALSE, data |-> JsonNull]
  ELSE [threw |-> TRUE, data |-> JsonNull]

\* The test taking an entry of fewer than two stocks for no entry.
Truthy_complete(v) == v # JsonNull /\ Len(v.stocks) >= 2

\* if (cached)   (part_003:44)
Truthy(v) == v # JsonNull

\* The freshness test with the window counted in minutes.
cacheIsFresh_minutes(entry, time) ==
  /\ "calculatedAt" \in DOMAIN entry
  /\ IsDate(entry.calculatedAt)
  /\ time - getTime(entry.calculatedAt) < CACHE_DURATION_HOURS * 60 * 1000

\* The freshness test with <= for <.
cacheIsFresh_inclusive(entry, time) ==
  /\ "calculatedAt" \in DOMAIN entry
  /\ IsDate(entry.calculatedAt)
  /\ time - getTime(entry.calculatedAt) <= CACHE_DURATION_HOURS * 60 * 60 * 1000

\* The freshness test asking whether the entry has expired: an age that is
\* no number has not.
cacheIsFresh_notExpired(entry, time) ==
  ~ /\ "calculatedAt" \in DOMAIN entry
    /\ IsDate(entry.calculatedAt)
    /\ time - getTime(entry.calculatedAt) >= CACHE_DURATION_HOURS * 60 * 60 * 1000

\* part_003:45-48
cacheIsFresh(entry, time) ==
  /\ "calculatedAt" \in DOMAIN entry
  /\ IsDate(entry.calculatedAt)
  /\ time - getTime(entry.calculatedAt) < CACHE_DURATION_HOURS * 60 * 60 * 1000

SetOutcome(log, outcome) ==
  [log EXCEPT ![Len(log)] = [@ EXCEPT !.outcome = outcome]]

\* part_003:42-61: getFromS3 settles; a fresh entry is the response, anything
\* else starts calculateCorrelationMatrix; an error goes to the catch
\* (part_003:70-77).
GetFromS3Returns(p, outcome) ==
  /\ pc[p] = "getFromS3"
  /\ outcome \in GetOutcomes(cacheKey[p])
  /\ LET got == getFromS3(cacheKey[p], outcome)
     IN  IF got.threw
         THEN /\ Respond(p, ErrorResponse(500, "CORRELATION_ERROR"))
              /\ io' = [io EXCEPT ![p] = SetOutcome(@, outcome)]
              /\ UNCHANGED << cached, readAt, promises >>
         ELSE /\ cached' = [cached EXCEPT ![p] = got.data]
              /\ readAt' = [readAt EXCEPT ![p] = now]
              /\ IF Truthy(got.data) /\ cacheIsFresh(got.data, now)
                 THEN /\ Respond(p, ResultResponse(got.data, TRUE, FALSE))
                      /\ io' = [io EXCEPT ![p] = SetOutcome(@, outcome)]
                      /\ UNCHANGED promises
                 ELSE /\ pc' = [pc EXCEPT ![p] = "calculate"]
                      /\ io' = [io EXCEPT ![p] = SetOutcome(@, outcome) \o FetchCalls(tickers[p])]
                      /\ promises' = [promises EXCEPT ![p] = FetchPromises(tickers[p])]
                      /\ UNCHANGED res
  /\ UNCHANGED << direct, now, ticks, issued, s3, route, input, tickers, cacheKey,
                  historicalData, correlations, replaced, lastRefresh, settled >>

\* The body check with the minimum of one ticker.
ValidBody_one(v) == v.type = "array" /\ Len(v.value) >= 1

\* Array.isArray(tickers) and the rest of part_003:85.
ValidBody(v) == v.type = "array" /\ Len(v.value) >= 2

\* part_003:81-96: POST /correlations/refresh up to the await of
\* calculateCorrelationMatrix.
RefreshCorrelations(p, body) ==
  /\ Accept(p, "refresh", body)
  /\ cacheKey' = [cacheKey EXCEPT ![p] = << >>]
  /\ IF ~ValidBody(body)
     THEN /\ Respond(p, ErrorResponse(400, "INVALID_TICKERS"))
          /\ tickers' = [tickers EXCEPT ![p] = << >>]
          /\ io' = [io EXCEPT ![p] = << >>]
          /\ promises' = [promises EXCEPT ![p] = << >>]
     ELSE /\ tickers' = [tickers EXCEPT ![p] = body.value]
          /\ io' = [io EXCEPT ![p] = FetchCalls(body.value)]
          /\ promises' = [promises EXCEPT ![p] = FetchPromises(body.value)]
          /\ pc' = [pc EXCEPT ![p] = "calculate"]
          /\ res' = [res EXCEPT ![p] = NoResponse]
  /\ UNCHANGED << now, ticks, s3, lastRefresh, direct >>

\* How a chart request settled: its outcome, and the close array of the
\* response.
Settled(provider, call) ==
  IF call.op = "fetch"
  THEN [op |-> "fetch", arg |-> call.arg,
        outcome |-> IF getHistoricalPrices(provider, call.arg).threw THEN "error" ELSE "ok",
        close |-> Answer(provider, call.arg).close]
  ELSE call

\* stockData.js:117-123: what the promise of one ticker is fulfilled with
\* when the provider has answered its chart request with answer; a failed
\* request is caught and gives the empty series.
historyEntry(ticker, answer) ==
  LET h == getHistoricalPrices((ticker :> answer), ticker)
  IN  [ticker |-> ticker,
       prices |-> IF h.threw THEN << >> ELSE h.prices,
       sector |-> getSector(ticker)]

\* The values of the promises in the order in which they settled.
promiseAll_completionOrder(ps, order) == [k \in 1..Len(order) |-> ps[order[k]].value]

\* The values of the promises, last to first.
promiseAll_reversed(ps, order) == [i \in 1..Len(ps) |-> ps[Len(ps) + 1 - i].value]

\* Promise.all (stockData.js:115): the values of the fulfilled promises ps in
\* the order of the array, whatever the order in which they settled.
promiseAll(ps, order) == [i \in 1..Len(ps) |-> ps[i].value]

\* The place in the log of the chart request for the i-th ticker.
FetchIndex(p, i) == Len(io[p]) - Len(tickers[p]) + i

\* The handler answering as soon as the engine has returned, before it
\* calls saveToS3.
EngineReturns_respondFirst(p, data) ==
  /\ historicalData' = [historicalData EXCEPT ![p] = data]
  /\ correlations' = [correlations EXCEPT ![p] = correlationResult(data, now)]
  /\ cacheKey' = [cacheKey EXCEPT ![p] = getCacheKey(tickers[p])]
  /\ pc' = [pc EXCEPT ![p] = "saveToS3"]
  /\ res' = [res EXCEPT ![p] = ResultResponse(toJSON(correlationResult(data, now)), FALSE,
                                              route[p] = "refresh")]
  /\ UNCHANGED << direct, now, ticks, issued, s3, route, input, tickers, cached, readAt,
                  replaced, lastRefresh >>

\* stockData.js:127-184 and part_003:61-63, 96-99: with historicalData in
\* hand the engine returns its result and the handler calls saveToS3 under
\* getCacheKey(tickers).
EngineReturns(p, data) ==
  /\ historicalData' = [historicalData EXCEPT ![p] = data]
  /\ correlations' = [correlations EXCEPT ![p] = correlationResult(data, now)]
  /\ cacheKey' = [cacheKey EXCEPT ![p] = getCacheKey(tickers[p])]
  /\ pc' = [pc EXCEPT ![p] = "saveToS3"]
  /\ UNCHANGED << direct, now, ticks, issued, s3, route, input, tickers, cached, res, readAt,
                  replaced, lastRefresh >>

PutCall(key) == [op |-> "put", arg |-> key, outcome |-> "sent"]

\* part_003:61-63 and 96-99: calculateCorrelationMatrix settles with its
\* result, the provider having answered every chart request as in provider,
\* in the order of the tickers, and the handler calls saveToS3.
CalculateReturns(p, provider) ==
  /\ pc[p] = "calculate"
  /\ \A i \in 1..Len(promises[p]) : promises[p][i] = Pending
  /\ promises' = [promises EXCEPT ![p] =
                    [i \in 1..Len(tickers[p]) |->
                       Fulfilled(fetchHistoricalData(provider, tickers[p])[i])]]
  /\ settled' = [settled EXCEPT ![p] = [i \in 1..Len(tickers[p]) |-> i]]
  /\ EngineReturns(p, promiseAll(promises'[p], settled'[p]))
  /\ io' = [io EXCEPT ![p] =
              [i \in 1..Len(io[p]) |-> Settled(provider, io[p][i])]
              \o << PutCall(cacheKey'[p]) >>]

\* The catch answering with the entry the handler read, when it read one.
CalculateThrows_staleFallback(p, provider) ==
  /\ pc[p] = "calculate"
  /\ \A i \in 1..Len(promises[p]) : promises[p][i] = Pending
  /\ \E i \in 1..Len(tickers[p]) : getHistoricalPrices(provider, tickers[p][i]).threw
  /\ io' = [io EXCEPT ![p] = [i \in 1..Len(io[p]) |-> Settled(provider, io[p][i])]]
  /\ IF route[p] = "get" /\ Truthy(cached[p])
     THEN Respond(p, ResultResponse(cached[p], TRUE, FALSE))
     ELSE Respond(p, ErrorResponse(500, IF route[p] = "get" THEN "CORRELATION_ERROR"
                                                          ELSE "REFRESH_ERROR"))
  /\ UNCHANGED << direct, now, ticks, issued, s3, route, input, tickers, cacheKey, cached,
                  historicalData, correlations, readAt, replaced, lastRefresh,
                  promises, settled >>

\* part_003:61, 70-77 and 96, 107-115: calculateCorrelationMatrix rejects
\* and the route's catch answers 500. The engine rethrows what is thrown
\* inside it (stockData.js:186-189); in services/correlations.js, the module
\* part_003 requires, a failed chart request is such a throw (29-32, 78-84).
CalculateThrows(p, provider) ==
  /\ pc[p] = "calculate"
  /\ \A i \in 1..Len(promises[p]) : promises[p][i] = Pending
  /\ \E i \in 1..Len(tickers[p]) : getHistoricalPrices(provider, tickers[p][i]).threw
  /\ io' = [io EXCEPT ![p] = [i \in 1..Len(io[p]) |-> Settled(provider, io[p][i])]]
  /\ Respond(p, ErrorResponse(500, IF route[p] = "get" THEN "CORRELATION_ERROR"
                                                       ELSE "REFRESH_ERROR"))
  /\ UNCHANGED << direct, now, ticks, issued, s3, route, input, tickers, cacheKey, cached,
                  historicalData, correlations, readAt, replaced, lastRefresh,
                  promises, settled >>

\* stockData.js:82-91 and 117-123: the chart request for the i-th ticker
\* settles with answer, and the promise of that ticker is fulfilled.
FetchSettles(p, i, answer) ==
  /\ pc[p] = "calculate"
  /\ i \in 1..Len(promises[p])
  /\ promises[p][i] = Pending
  /\ io[p][FetchIndex(p, i)].outcome = "sent"
  /\ promises' = [promises EXCEPT ![p][i] = Fulfilled(historyEntry(tickers[p][i], answer))]
  /\ settled' = [settled EXCEPT ![p] = Append(@, i)]
  /\ io' = [io EXCEPT ![p][FetchIndex(p, i)] =
              [@ EXCEPT !.outcome = IF answer.ok THEN "ok" ELSE "error",
                        !.close = answer.close]]
  /\ UNCHANGED << direct, now, ticks, issued, s3, pc, route, input, tickers, cacheKey, cached,
                  historicalData, correlations, res, readAt, replaced, lastRefresh >>

\* stockData.js:82: axios.get is called without a timeout; a provider that
\* keeps the connection open and sends nothing leaves the request, and the
\* promise of that ticker, unsettled for good.
FetchStalls(p, i) ==
  /\ pc[p] = "calculate"
  /\ i \in 1..Len(promises[p])
  /\ promises[p][i] = Pending
  /\ io[p][FetchIndex(p, i)].outcome = "sent"
  /\ io' = [io EXCEPT ![p][FetchIndex(p, i)].outcome = "stalled"]
  /\ UNCHANGED << direct, now, ticks, issued, s3, pc, route, input, tickers, cacheKey, cached,
                  historicalData, correlations, res, readAt, replaced, lastRefresh,
                  promises, settled >>

\* stockData.js:115-184: every promise is fulfilled, Promise.all resolves
\* and the engine returns.
PromiseAllResolves(p) ==
  /\ pc[p] = "calculate"
  /\ \A i \in 1..Len(promises[p]) : promises[p][i].state = "fulfilled"
  /\ EngineReturns(p, promiseAll(promises[p], settled[p]))
  /\ io' = [io EXCEPT ![p] = @ \o << PutCall(cacheKey'[p]) >>]
  /\ UNCHANGED << promises, settled >>

\* A put that keeps the body already stored under the key.
saveToS3_ifAbsent(store, key, data, outcome) ==
  IF outcome = "ok"
  THEN [threw |-> FALSE, store |-> store @@ (key :> toJSON(data))]
  ELSE [threw |-> TRUE, store |-> store]

\* A put that keeps the body already stored and writes the new one beside
\* it, under a second name.
saveToS3_versioned(store, key, data, outcome) ==
  IF outcome = "ok"
  THEN [threw |-> FALSE,
        store |-> IF key \in DOMAIN store
                  THEN ((key \o << "2" >>) :> toJSON(data)) @@ store
                  ELSE (key :> toJSON(data)) @@ store]
  ELSE [threw |-> TRUE, store |-> store]

\* A put that updates the body already stored under the key in place: the
\* stocks stored stay, the rest is replaced.
saveToS3_patch(store, key, data, outcome) ==
  IF outcome = "ok"
  THEN [threw |-> FALSE,
        store |-> IF key \in DOMAIN store
                  THEN (key :> [toJSON(data) EXCEPT !.stocks = store[key].stocks]) @@ store
                  ELSE (key :> toJSON(data)) @@ store]
  ELSE [threw |-> TRUE, store |-> store]

\* A put that empties the bucket before it writes.
saveToS3_alone(store, key, data, outcome) ==
  IF outcome = "ok"
  THEN [threw |-> FALSE, store |-> (key :> toJSON(data))]
  ELSE [threw |-> TRUE, store |-> store]

\* s3.js:5-25: putObject of the JSON body under key; an error is rethrown.
saveToS3(store, key, data, outcome) ==
  IF outcome = "ok"
  THEN [threw |-> FALSE, store |-> (key :> toJSON(data)) @@ store]
  ELSE [threw |-> TRUE, store |-> store]

\* part_003:63-78 and 99-115: saveToS3 settles; the result is the response,
\* an error goes to the catch.
SaveToS3Returns(p, outcome) ==
  /\ pc[p] = "saveToS3"
  /\ outcome \in {"ok", "error"}
  /\ LET put == saveToS3(s3, cacheKey[p], correlations[p], outcome)
     IN  /\ s3' = put.store
         /\ io' = [io EXCEPT ![p] = SetOutcome(@, outcome)]
         /\ IF put.threw
            THEN /\ Respond(p, ErrorResponse(500, IF route[p] = "get" THEN "CORRELATION_ERROR"
                                                                     ELSE "REFRESH_ERROR"))
                 /\ UNCHANGED << replaced, lastRefresh >>
            ELSE /\ Respond(p, ResultResponse(toJSON(correlations[p]), FALSE,
                                              route[p] = "refresh"))
                 /\ replaced' = [replaced EXCEPT ![p] =
                                   IF cacheKey[p] \in DOMAIN s3 THEN s3[cacheKey[p]]
                                   ELSE JsonNull]
                 /\ lastRefresh' =
                      IF route[p] = "refresh"
                      THEN [tickers |-> tickers[p], key |-> cacheKey[p],
                            body |-> s3'[cacheKey[p]], at |-> now]
                      ELSE Nothing
  /\ UNCHANGED << direct, now, ticks, issued, route, input, tickers, cacheKey, cached,
                  historicalData, correlations, readAt, promises, settled >>

\* Time passes.
Tick(d) ==
  /\ ticks < MaxTicks
  /\ ticks' = ticks + 1
  /\ now' = now + d
  /\ UNCHANGED << direct, issued, s3, pc, route, input, tickers, cacheKey, cached,
                  historicalData, correlations, res, io, readAt, replaced, lastRefresh,
                  promises, settled >>

\* The provider's answers in the service specification.
Markets == { m \in AllMarkets : m[tV].close = Rising }

\* One request at a time, in slot 1, the clock advancing between requests
\* only: a request takes far less than an hour.
Next ==
  \/ \E q \in QueryInputs : Quiet /\ GetCorrelations(1, q)
  \/ \E p \in Slots, o \in {"ok", "NoSuchKey", "error"} : GetFromS3Returns(p, o)
  \/ \E b \in BodyInputs : Quiet /\ RefreshCorrelations(1, b)
  \/ \E p \in Slots, m \in Markets : CalculateReturns(p, m)
  \/ \E p \in Slots, o \in {"ok", "error"} : SaveToS3Returns(p, o)
  \/ \E d \in TickSteps : Quiet /\ Tick(d)

Spec == Init /\ [][Next]_vars


(***************************************************************************)
(* Properties of the routes                                                *)
(***************************************************************************)

DayMs == 24 * HourMs

\* The handler in slot p has read the cache and got an entry / no entry.
ReadEntry(p) == route[p] = "get" /\ cached[p] # Nothing /\ cached[p] # JsonNull
ReadAbsent(p) == route[p] = "get" /\ cached[p] = JsonNull

\* Age of the entry the handler in slot p read, at the time it read it.
AgeRead(p) == readAt[p] - cached[p].calculatedAt.iso

LastCall(p) == io[p][Len(io[p])]

GetCall(key, outcome) == [op |-> "get", arg |-> key, outcome |-> outcome]

\* The arguments of the chart requests of a log, in order.
FetchedSymbols(log) ==
  LET IsFetch(c) == c.op = "fetch"
      f == SelectSeq(log, IsFetch)
  IN  [i \in 1..Len(f) |-> f[i].arg]

PutFailed(p) == io[p] # << >> /\ LastCall(p).op = "put" /\ LastCall(p).outcome = "error"

\* C1: a normal request that finds an entry younger than 24 hours under its
\* key answers with exactly that entry and fromCache = true, and has made
\* no call but the one cache read: no chart request, no matrix, no put.
C1_FreshHitIsTerminal ==
  \A p \in Slots :
    (ReadEntry(p) /\ AgeRead(p) < DayMs) =>
      /\ pc[p] = "done"
      /\ res[p] = [status |-> 200, body |-> cached[p], fromCache |-> TRUE, refreshed |-> FALSE]
      /\ cached[p] = s3[getCacheKey(tickers[p])]
      /\ io[p] = << GetCall(getCacheKey(tickers[p]), "ok") >>
      /\ historicalData[p] = << >>
      /\ correlations[p] = Nothing

\* A fresh hit at the age of 23 hours.
C1_Witness ==
  \E p \in Slots :
    /\ ReadEntry(p) /\ AgeRead(p) = 23 * HourMs
    /\ pc[p] = "done" /\ res[p].status = 200 /\ res[p].fromCache

\* C2: a normal request whose key has no entry (the read returns absent), or
\* an entry aged 24 hours or more, asks for the prices of all its tickers
\* and computes; once it has answered, the answer is the new result with
\* fromCache = false and the bucket holds that result under the same key,
\* unless the put failed.
C2_StaleOrMissRecomputes ==
  \A p \in Slots :
    (ReadAbsent(p) \/ (ReadEntry(p) /\ AgeRead(p) >= DayMs)) =>
      /\ pc[p] \in {"calculate", "saveToS3", "done"}
      /\ io[p][1] = GetCall(getCacheKey(tickers[p]), IF ReadAbsent(p) THEN "NoSuchKey" ELSE "ok")
      /\ FetchedSymbols(io[p]) = tickers[p]
      /\ pc[p] = "done" =>
           \/ PutFailed(p)
           \/ /\ correlations[p] = correlationResult(historicalData[p], readAt[p])
              /\ res[p] = [status |-> 200, body |-> toJSON(correlations[p]),
                           fromCache |-> FALSE, refreshed |-> FALSE]
              /\ LastCall(p) = [op |-> "put", arg |-> getCacheKey(tickers[p]), outcome |-> "ok"]
              /\ s3[getCacheKey(tickers[p])] = toJSON(correlations[p])

\* An entry aged exactly 24 hours was recomputed and overwritten.
C2_Witness ==
  \E p \in Slots :
    /\ ReadEntry(p) /\ AgeRead(p) = DayMs
    /\ pc[p] = "done" /\ res[p].status = 200 /\ ~res[p].fromCache
    /\ replaced[p] = cached[p]
    /\ s3[cacheKey[p]] # cached[p]

\* The request in slot p is a force-refresh with at least 2 tickers.
IsRefresh(p) == route[p] = "refresh" /\ input[p].type = "array" /\ Len(input[p].value) >= 2

\* C3: a force-refresh with at least 2 tickers never reads the cache or
\* tests freshness; it computes, and once it has answered, the answer is the
\* new result with fromCache = false and the bucket holds that result under
\* the key of its tickers, whatever was stored there, unless the put failed.
C3_ForceRefreshBypassesCache ==
  \A p \in Slots :
    IsRefresh(p) =>
      /\ pc[p] \in {"calculate", "saveToS3", "done"}
      /\ \A i \in 1..Len(io[p]) : io[p][i].op # "get"
      /\ cached[p] = Nothing
      /\ FetchedSymbols(io[p]) = input[p].value
      /\ pc[p] = "done" =>
           \/ PutFailed(p)
           \/ /\ correlations[p] =
                   correlationResult(historicalData[p], getTime(correlations[p].calculatedAt))
              /\ res[p] = [status |-> 200, body |-> toJSON(correlations[p]),
                           fromCache |-> FALSE, refreshed |-> TRUE]
              /\ LastCall(p) = [op |-> "put", arg |-> getCacheKey(input[p].value),
                                outcome |-> "ok"]
              /\ s3[getCacheKey(input[p].value)] = toJSON(correlations[p])

\* A force-refresh has overwritten an entry that was still fresh.
C3_Witness ==
  \E p \in Slots :
    /\ IsRefresh(p) /\ pc[p] = "done" /\ res[p].status = 200
    /\ replaced[p] # Nothing /\ replaced[p] # JsonNull
    /\ now - replaced[p].calculatedAt.iso < DayMs
    /\ replaced[p] # s3[cacheKey[p]]

\* Two ticker lists name the same tickers: equal up to order once trimmed
\* and upper-cased.
Normalized(ts) == [i \in 1..Len(ts) |-> toUpperCase(trim(ts[i]))]

SameTickers(a, b) == sort(Normalized(a)) = sort(Normalized(b))

\* C4: when the latest write to the bucket is a successful force-refresh and
\* a normal request naming the same tickers reads the cache within 24 hours
\* of the refresh's calculatedAt, its answer is the refresh's result, from
\* the cache.
C4_RefreshVisibleToNextRead ==
  \A p \in Slots :
    ( /\ route[p] = "get" /\ cached[p] # Nothing
      /\ lastRefresh # Nothing
      /\ SameTickers(lastRefresh.tickers, tickers[p])
      /\ readAt[p] - lastRefresh.body.calculatedAt.iso < DayMs ) =>
      res[p] = [status |-> 200, body |-> lastRefresh.body, fromCache |-> TRUE,
                refreshed |-> FALSE]

\* The number of tickers a request supplies.
Supplied(kind, v) ==
  IF v.type = "array" THEN Len(v.value)
  ELSE IF kind = "get" /\ v.type = "string" /\ v.value # << >>
       THEN 1 + Cardinality({i \in 1..Len(v.value) : v.value[i] = ","})
       ELSE 0

\* C6: a request, normal or force-refresh, that supplies fewer than 2
\* tickers is answered 400 at once and makes no call at all: no cache read,
\* no chart request, no put.
C6_FewerThanTwoRejected ==
  \A p \in Slots :
    (route[p] # "none" /\ Supplied(route[p], input[p]) < 2) =>
      /\ pc[p] = "done"
      /\ res[p].status = 400
      /\ io[p] = << >>
      /\ cached[p] = Nothing
      /\ correlations[p] = Nothing

\* A force-refresh with one ticker was rejected while the bucket held an
\* entry.
C6_Witness ==
  \E p \in Slots :
    /\ pc[p] = "done" /\ res[p].status = 400
    /\ Supplied(route[p], input[p]) = 1
    /\ route[p] = "refresh"
    /\ s3 # << >>

\* The ticker list a request names, as its handler takes it.
Named(kind, v) ==
  IF v.type = "array" THEN v.value
  ELSE IF kind = "get" /\ v.type = "string" /\ v.value # << >> THEN parseTickers(v.value)
  ELSE << >>

BadSymbol(t) == t = << >> \/ Len(t) > 10

\* C7: a request whose ticker list holds an empty ticker or one longer than
\* 10 characters is answered 400 and makes no call at all.
C7_BadSymbolRejected ==
  \A p \in Slots :
    (route[p] # "none" /\ \E i \in 1..Len(Named(route[p], input[p])) :
                            BadSymbol(Named(route[p], input[p])[i])) =>
      /\ pc[p] = "done"
      /\ res[p].status = 400
      /\ io[p] = << >>

\* C8: when the put of a computed result fails, the request still answers
\* with that result and fromCache = false, and the put is made once.
C8_PutFailureNonFatal ==
  \A p \in Slots :
    (pc[p] = "done" /\ PutFailed(p)) =>
      /\ res[p] = [status |-> 200, body |-> toJSON(correlations[p]), fromCache |-> FALSE,
                   refreshed |-> route[p] = "refresh"]
      /\ Cardinality({i \in 1..Len(io[p]) : io[p][i].op = "put"}) = 1

\* C9: when the cache read of a normal request fails, the request computes
\* and answers with the computed result and fromCache = false.
C9_ReadFailureIsMiss ==
  \A p \in Slots :
    (route[p] = "get" /\ io[p] # << >> /\ io[p][1] = GetCall(cacheKey[p], "error")) =>
      /\ pc[p] \in {"calculate", "saveToS3", "done"}
      /\ FetchedSymbols(io[p]) = tickers[p]
      /\ (pc[p] = "done" /\ ~PutFailed(p)) =>
           res[p] = [status |-> 200, body |-> toJSON(correlations[p]), fromCache |-> FALSE,
                     refreshed |-> FALSE]


(***************************************************************************)
(* The cache key as a function of the ticker list                          *)
(***************************************************************************)

\* All sequences over S of length lo..hi.
SeqsOf(S, lo, hi) == UNION { [1..n -> S] : n \in lo..hi }

\* Tickers that differ by case, by a prefix, by the separator, and the
\* empty ticker.
KeyTokens == { tV, tMA, << "M" >>, << "m", "a" >>, << "M", "-" >>, << >> }

KeyBodies == { Arr(ts) : ts \in SeqsOf(KeyTokens, 2, MaxTickers) }

\* No symbol of KeyTokens has prices.
NoMarket == << >>

NextKey ==
  \/ \E b \in KeyBodies : Quiet /\ RefreshCorrelations(1, b)
  \/ \E p \in Slots : CalculateReturns(p, NoMarket)

SpecKey == Init /\ [][NextKey]_vars

\* The rearrangements of a list.
Rearrangements(a) ==
  { [i \in 1..Len(a) |-> a[f[i]]] :
      f \in { g \in [1..Len(a) -> 1..Len(a)] : \A i, j \in 1..Len(a) : g[i] = g[j] => i = j } }

\* C5: the cache key of a ticker list is the key of every rearrangement of
\* it, and computing it leaves the handler's list in the order the caller
\* gave.
C5_KeyOrderInvariant ==
  \A p \in Slots :
    pc[p] = "saveToS3" =>
      /\ \A q \in Rearrangements(input[p].value) : getCacheKey(q) = cacheKey[p]
      /\ tickers[p] = input[p].value
      /\ [i \in 1..Len(historicalData[p]) |-> historicalData[p][i].ticker] = input[p].value

\* A key was computed for a list that is not in ascending order.
C5_Witness ==
  \E p \in Slots :
    /\ pc[p] = "saveToS3"
    /\ Len(tickers[p]) = 3
    /\ sort(tickers[p]) # tickers[p]
    /\ cacheKey[p] = getCacheKey(sort(tickers[p]))

(***************************************************************************)
(* The engine as a function of the ticker list and the provider's answers  *)
(***************************************************************************)

EngineTickers == { tV, tMA, tGS, tKO }

EngineBodies == { Arr(ts) : ts \in SeqsOf(EngineTickers, 2, MaxTickers) }

\* Every symbol fails or has one of three series of more than 10 prices.
EngineMarkets == [EngineTickers -> { NoAnswer, Ok(Rising), Ok(Bumpy), Ok(Wavy) }]

NextEngine ==
  \/ \E b \in EngineBodies : Quiet /\ RefreshCorrelations(1, b)
  \/ \E p \in Slots, m \in EngineMarkets : CalculateReturns(p, m)

SpecEngine == Init /\ [][NextEngine]_vars

\* The engine has returned in slot p.
Calculated(p) == correlations[p] # Nothing

\* The chart request for the i-th ticker failed.
FetchFailed(p, i) == io[p][i].op = "fetch" /\ io[p][i].outcome = "error"

\* The requested tickers whose chart request succeeded, in request order.
Fetched(p) ==
  LET Good(c) == c.op = "fetch" /\ c.outcome = "ok"
      g == SelectSeq(io[p], Good)
  IN  [i \in 1..Len(g) |-> g[i].arg]

\* The answers the provider gave to the requests that succeeded.
AnswersGiven(p) ==
  [t \in { historicalData[p][i].ticker :
             i \in { k \in 1..Len(historicalData[p]) : ~FetchFailed(p, k) } } |->
     Ok((CHOOSE d \in { historicalData[p][i] : i \in 1..Len(historicalData[p]) } :
           d.ticker = t).prices)]

SeriesTickers == { tV, tMA, tKO }

SeriesBodies == { Arr(ts) : ts \in SeqsOf(SeriesTickers, 2, MaxTickers) }

\* Every symbol fails, or has a series of 12 prices (Rising, Choppy), of 11
\* (Bumpy), of 11 equal prices (Flat) or of 10 (Sparse).
SeriesAnswers == { NoAnswer, Ok(Rising), Ok(Choppy), Ok(Bumpy), Ok(Flat), Ok(Sparse) }

SeriesMarkets == [SeriesTickers -> SeriesAnswers]

NextSeries ==
  \/ \E b \in SeriesBodies : Quiet /\ RefreshCorrelations(1, b)
  \/ \E p \in Slots, m \in SeriesMarkets : CalculateReturns(p, m)

SpecSeries == Init /\ [][NextSeries]_vars

\* The chart requests of slot p, in the order of the tickers.
FetchLog(p) ==
  LET IsFetch(c) == c.op = "fetch"
  IN  SelectSeq(io[p], IsFetch)

\* The prices in the response to a chart request, the null entries not
\* counted.
Points(call) == Cardinality({ k \in 1..Len(call.close) : call.close[k] # Null })

\* The tickers of the requests that succeeded with more than n prices.
WithMoreThan(p, n) ==
  LET Kept(c) == c.outcome = "ok" /\ Points(c) > n
      k == SelectSeq(FetchLog(p), Kept)
  IN  [i \in 1..Len(k) |-> k[i].arg]

InStocks(p, t) == \E k \in 1..Len(correlations[p].stocks) : correlations[p].stocks[k] = t

\* C11: a ticker is in stocks if and only if the response to its chart
\* request holds more than 10 prices that are not null: stocks is the list
\* of these tickers, a ticker with 10 prices or fewer is not in it, and one
\* with 11 is.
C11_MoreThanTenPoints ==
  \A p \in Slots :
    Calculated(p) =>
      /\ correlations[p].stocks = WithMoreThan(p, 10)
      /\ \A i \in 1..Len(FetchLog(p)) :
           LET c == FetchLog(p)[i]
           IN  InStocks(p, c.arg) <=> (c.outcome = "ok" /\ Points(c) >= 11)

\* Of three tickers, the one with 10 prices is left out although its
\* request succeeded, and the one with 11 is kept.
C11_Witness ==
  \E p \in Slots :
    /\ Calculated(p)
    /\ Len(FetchLog(p)) = 3
    /\ \E i, j \in 1..3 :
         /\ FetchLog(p)[i].outcome = "ok" /\ Points(FetchLog(p)[i]) = 10
         /\ Len(FetchLog(p)[i].close) > 10
         /\ ~InStocks(p, FetchLog(p)[i].arg)
         /\ FetchLog(p)[j].outcome = "ok" /\ Points(FetchLog(p)[j]) = 11
         /\ InStocks(p, FetchLog(p)[j].arg)

\* The entries of historicalData the engine of slot p kept (stockData.js:128).
ValidData(p) == SelectSeq(historicalData[p], HasEnoughPrices)

\* C12: the matrix of every result is square with the side of stocks, and
\* its entry at (i, j) is its entry at (j, i), the two being computed by two
\* calls of calculateCorrelation with the series swapped (both are NaN when
\* one of the two series is constant).
C12_MatrixSymmetric ==
  \A p \in Slots :
    Calculated(p) =>
      LET r == correlations[p]
      IN  /\ Len(r.matrix) = Len(r.stocks)
          /\ \A i \in 1..Len(r.matrix) :
               /\ Len(r.matrix[i]) = Len(r.stocks)
               /\ \A j \in 1..Len(r.matrix) : r.matrix[i][j] = r.matrix[j][i]

\* Two series of different lengths have a correlation that is a number
\* other than 1, the same in both places.
C12_Witness ==
  \E p \in Slots :
    /\ Calculated(p)
    /\ \E i, j \in 1..Len(correlations[p].matrix) :
         /\ i # j
         /\ Len(ValidData(p)[i].prices) # Len(ValidData(p)[j].prices)
         /\ correlations[p].matrix[i][j] # NaN
         /\ correlations[p].matrix[i][j] # One
         /\ correlations[p].matrix[i][j] = correlations[p].matrix[j][i]
         /\ correlations[p].matrix[i][j] =
              calculateCorrelation(ValidData(p)[i].prices, ValidData(p)[j].prices)

\* C13: every diagonal entry of the matrix is the literal 1.0, not a
\* computed correlation, also for a ticker whose series is constant.
C13_DiagonalIsOne ==
  \A p \in Slots :
    Calculated(p) =>
      \A i \in 1..Len(correlations[p].matrix) : correlations[p].matrix[i][i] = One

\* A ticker with a constant series has 1.0 on the diagonal where its
\* correlation with itself is NaN.
C13_Witness ==
  \E p \in Slots :
    /\ Calculated(p)
    /\ \E i \in 1..Len(correlations[p].matrix) :
         /\ calculateCorrelation(ValidData(p)[i].prices, ValidData(p)[i].prices) = NaN
         /\ correlations[p].matrix[i][i] = One

\* The first place of ticker t in stocks.
PlaceInStocks(p, t) ==
  CHOOSE k \in 1..Len(correlations[p].stocks) :
    /\ correlations[p].stocks[k] = t
    /\ \A l \in 1..(k - 1) : correlations[p].stocks[l] # t

StockPairs(p) ==
  { pr \in (1..Len(correlations[p].stocks)) \X (1..Len(correlations[p].stocks)) :
      pr[1] < pr[2] }

\* An edge of the result of slot p joins stocks[i] and stocks[j].
HasEdge(p, i, j) ==
  \E k \in 1..Len(correlations[p].edges) :
    /\ correlations[p].edges[k].source = correlations[p].stocks[i]
    /\ correlations[p].edges[k].target = correlations[p].stocks[j]

\* C15: the correlation stored in every edge, the matrix entry rounded to
\* 2 decimals, is greater than the threshold, and a pair whose matrix entry
\* is not greater than the threshold has no edge.
C15_ThresholdRespected ==
  \A p \in Slots :
    Calculated(p) =>
      /\ \A k \in 1..Len(correlations[p].edges) :
           correlations[p].edges[k].correlation > ThresholdPct
      /\ \A pr \in StockPairs(p) :
           ( /\ correlations[p].stocks[pr[1]] # correlations[p].stocks[pr[2]]
             /\ ~GreaterThanPct(correlations[p].matrix[pr[1]][pr[2]], ThresholdPct) )
             => ~HasEdge(p, pr[1], pr[2])

\* C19: for all places i < j of stocks there is an edge from stocks[i] to
\* stocks[j] if and only if the matrix entry at (i, j) is greater than the
\* threshold, whatever the sectors of the two tickers.
C19_EdgeIffAboveThreshold ==
  \A p \in Slots :
    Calculated(p) =>
      \A pr \in StockPairs(p) :
        HasEdge(p, pr[1], pr[2])
          <=> GreaterThanPct(correlations[p].matrix[pr[1]][pr[2]], ThresholdPct)

(***************************************************************************)
(* The service with every chart request settling, or not, on its own       *)
(***************************************************************************)

StallQueries == { Str(tV \o Comma \o tMA) }

StallBodies == { Arr(<< tMA, tV >>), Arr(<< tV, tMA, tGS >>) }

\* A chart request fails or returns a series.
StallAnswers == { NoAnswer, Ok(Rising) }

NextStall ==
  \/ \E q \in StallQueries : Quiet /\ GetCorrelations(1, q)
  \/ \E p \in Slots, o \in {"ok", "NoSuchKey", "error"} : GetFromS3Returns(p, o)
  \/ \E b \in StallBodies : Quiet /\ RefreshCorrelations(1, b)
  \/ \E p \in Slots, i \in 1..MaxTickers, a \in StallAnswers : FetchSettles(p, i, a)
  \/ \E p \in Slots, i \in 1..MaxTickers : FetchStalls(p, i)
  \/ \E p \in Slots : PromiseAllResolves(p)
  \/ \E p \in Slots, o \in {"ok", "error"} : SaveToS3Returns(p, o)

\* Every promise of slot p is fulfilled: Promise.all can resolve.
AllFulfilled(p) ==
  /\ pc[p] = "calculate"
  /\ \A i \in 1..Len(promises[p]) : promises[p][i].state = "fulfilled"

\* What PromiseAllResolves does to pc: the handler runs on from its await
\* of calculateCorrelationMatrix.
Resumes(p) == AllFulfilled(p) /\ pc' = [pc EXCEPT ![p] = "saveToS3"]

\* Every call that can settle does: S3 answers or fails, a chart request
\* that has not stalled is answered or fails, and the handler runs on when
\* what it awaits has settled.
FairStall ==
  \A p \in Slots :
    /\ WF_vars(\E o \in {"ok", "NoSuchKey", "error"} : GetFromS3Returns(p, o))
    /\ WF_vars(\E i \in 1..MaxTickers, a \in StallAnswers : FetchSettles(p, i, a))
    /\ WF_pc(Resumes(p))
    /\ WF_vars(\E o \in {"ok", "error"} : SaveToS3Returns(p, o))

SpecStall == Init /\ [][NextStall]_vars /\ FairStall

\* A chart request of slot p has stalled.
Stalled(p) ==
  /\ pc[p] = "calculate"
  /\ \E i \in 1..Len(tickers[p]) : io[p][FetchIndex(p, i)].outcome = "stalled"

\* With the fairness of SpecStall a request whose chart requests all settle
\* gets its response: only a stalled chart request can hold it back.
RespondsUnlessStalled ==
  \A p \in Slots : (pc[p] = "calculate") ~> (pc[p] = "done" \/ Stalled(p))

\* C16: a request one of whose chart requests never returns still gets its
\* response: the stalled request is given up like a failed one and the
\* handler goes on to respond.
C16_SlowTickerTimedOut ==
  \A p \in Slots : Stalled(p) ~> (pc[p] = "done")

(***************************************************************************)
(* The bucket under the routes (Spec)                                      *)
(***************************************************************************)

\* C17: the bucket holds one body per key, and only a put that succeeds
\* changes it: the step stores the result of the handler that made the put
\* under that handler's key, in place of whatever was there, and leaves
\* every other key as it was. So the entry of a key is always the result of
\* the latest successful put for it.
C17_SingleEntryLastWriterWins ==
  [][ \/ s3' = s3
      \/ \E p \in Slots :
           /\ pc[p] = "saveToS3" /\ pc'[p] = "done" /\ res'[p].status = 200
           /\ cacheKey[p] = getCacheKey(tickers[p])
           /\ DOMAIN s3' = DOMAIN s3 \cup {cacheKey[p]}
           /\ s3'[cacheKey[p]] = toJSON(correlations[p])
           /\ \A k \in DOMAIN s3 \ {cacheKey[p]} : s3'[k] = s3[k] ]_vars

\* A second put for a key has replaced the entry of the first: the bucket
\* holds the one entry, the later result.
C17_Witness ==
  \E p \in Slots :
    /\ pc[p] = "done" /\ res[p].status = 200 /\ ~res[p].fromCache
    /\ replaced[p] # Nothing /\ replaced[p] # JsonNull
    /\ DOMAIN s3 = {cacheKey[p]}
    /\ s3[cacheKey[p]] = toJSON(correlations[p])
    /\ s3[cacheKey[p]] # replaced[p]

(***************************************************************************)
(* The engine with the chart requests settling in any order                *)
(***************************************************************************)

\* The ticker lists are the beginnings of these two.
GatherLists == { << tMA, tKO, tV, tGS >>, << tGS, tV, tMA, tKO >> }

GatherBodies == { Arr(SubSeq(l, 1, n)) : l \in GatherLists, n \in 2..MaxTickers }

\* The provider gives every symbol the same answer each time it is asked:
\* three symbols have series of 12, 11 and 13 prices, one always fails.
GatherMarket ==
  (tV :> Ok(Rising)) @@ (tMA :> Ok(Bumpy)) @@ (tGS :> Ok(Wavy)) @@ (tKO :> NoAnswer)

\* A first run in slot 1; when its engine has returned, a second run with
\* the same ticker list in slot 2.
NextGather ==
  \/ \E b \in GatherBodies : Quiet /\ RefreshCorrelations(1, b)
  \/ pc[1] = "saveToS3" /\ RefreshCorrelations(2, input[1])
  \/ \E p \in Slots : \E i \in 1..Len(tickers[p]) :
       FetchSettles(p, i, Answer(GatherMarket, tickers[p][i]))
  \/ \E p \in Slots : PromiseAllResolves(p)

SpecGather == Init /\ [][NextGather]_vars

\* The provider's responses to the chart requests of slot p: outcome and
\* close array, in the order of the tickers.
Responses(p) ==
  [i \in 1..Len(FetchLog(p)) |->
     [arg |-> FetchLog(p)[i].arg, outcome |-> FetchLog(p)[i].outcome,
      close |-> FetchLog(p)[i].close]]

\* C18: two runs of the engine on the same ticker list, the provider giving
\* the same responses, return the same stocks, matrix and edges, in whatever
\* order the chart requests of either run settled.
C18_Deterministic ==
  \A p, q \in Slots :
    (Calculated(p) /\ Calculated(q) /\ tickers[p] = tickers[q]
       /\ Responses(p) = Responses(q)) =>
      /\ correlations[p].stocks = correlations[q].stocks
      /\ correlations[p].matrix = correlations[q].matrix
      /\ correlations[p].edges = correlations[q].edges

\* Two runs on three tickers whose chart requests settled in different
\* orders returned the same result, with two stocks or more.
C18_Witness ==
  /\ Calculated(1) /\ Calculated(2)
  /\ tickers[1] = tickers[2]
  /\ Len(tickers[1]) = 3
  /\ Responses(1) = Responses(2)
  /\ settled[1] # settled[2]
  /\ Len(correlations[1].stocks) >= 2
  /\ correlations[1].stocks = correlations[2].stocks
  /\ correlations[1].matrix = correlations[2].matrix

\* The non-null prices of the responses that succeeded with more than n
\* prices, in the order of the tickers.
SeriesWithMoreThan(p, n) ==
  LET Kept(c) == c.outcome = "ok" /\ Points(c) > n
      k == SelectSeq(FetchLog(p), Kept)
  IN  [i \in 1..Len(k) |-> SelectSeq(k[i].close, NotNull)]

IsConstant(series) == \A k \in 1..Len(series) : series[k] = series[1]

\* The response to a chart request is a valid series of equal prices.
ConstantResponse(call) ==
  call.outcome = "ok" /\ Points(call) > 10 /\ IsConstant(SelectSeq(call.close, NotNull))

\* The requested tickers but for those with a valid constant series.
WithoutConstant(p) ==
  LET Other(c) == ~ConstantResponse(c)
      k == SelectSeq(FetchLog(p), Other)
  IN  [i \in 1..Len(k) |-> k[i].arg]

\* C21: a valid ticker with a constant series is in stocks, every entry of
\* its row and column but the diagonal is NaN, the engine still returns a
\* result, no edge joins a pair whose entry is NaN, and the edges are those
\* of a request for the other tickers alone.
C21_ConstantSeriesTolerated ==
  \A p \in Slots :
    Calculated(p) =>
      LET r      == correlations[p]
          series == SeriesWithMoreThan(p, 10)
          same   == calculateCorrelationMatrix(AnswersGiven(p), WithoutConstant(p),
                                               getTime(r.calculatedAt))
      IN  /\ r.stocks = WithMoreThan(p, 10)
          /\ \A i \in 1..Len(series) :
               IsConstant(series[i]) =>
                 \A j \in 1..Len(series) :
                   j # i => r.matrix[i][j] = NaN /\ r.matrix[j][i] = NaN
          /\ \A pr \in StockPairs(p) :
               r.matrix[pr[1]][pr[2]] = NaN => ~HasEdge(p, pr[1], pr[2])
          /\ \A i \in 1..Len(FetchLog(p)) :
               ConstantResponse(FetchLog(p)[i]) =>
                 /\ InStocks(p, FetchLog(p)[i].arg)
                 /\ \A k \in 1..Len(r.edges) :
                      /\ r.edges[k].source # FetchLog(p)[i].arg
                      /\ r.edges[k].target # FetchLog(p)[i].arg
          /\ r.edges = same.edges

\* Of three different tickers the second has a constant series: it is in
\* stocks with NaN beside the diagonal, and the other two have their edge.
C21_Witness ==
  \E p \in Slots :
    /\ Calculated(p)
    /\ Len(correlations[p].stocks) = 3
    /\ Cardinality({ correlations[p].stocks[k] : k \in 1..3 }) = 3
    /\ ConstantResponse(FetchLog(p)[2])
    /\ correlations[p].matrix[2][1] = NaN
    /\ correlations[p].matrix[2][3] = NaN
    /\ Len(correlations[p].edges) = 1
    /\ correlations[p].edges[1].source = correlations[p].stocks[1]
    /\ correlations[p].edges[1].target = correlations[p].stocks[3]


(***************************************************************************)
(* calculateCorrelation called on its own (stockData.js:95-101)            *)
(***************************************************************************)

\* The longest series handed to calculateCorrelation.
MaxTrim == 3

\* The series of at most MaxTrim prices, the empty one included.
TrimSeries == UNION { [1..n -> {1, 2}] : n \in 0..MaxTrim }

\* ss.sampleCorrelation throws instead of returning a number: the library
\* refuses samples of different lengths and samples of fewer than two points.
Throws == [throws |-> TRUE]

\* A caller hands two series to calculateCorrelation.
InitTrim ==
  /\ NoRequests
  /\ s3 = << >>
  /\ direct \in { [at |-> "called", pricesA |-> a, pricesB |-> b] : a, b \in TrimSeries }

\* The body of calculateCorrelation: both series are sliced, then the
\* library is called on the slices.
Correlate ==
  /\ direct # Nothing
  /\ direct.at = "called"
  /\ LET a == trimmedA(direct.pricesA, direct.pricesB)
         b == trimmedB(direct.pricesA, direct.pricesB)
     IN  direct' = [at |-> "returned",
                    pricesA |-> direct.pricesA, pricesB |-> direct.pricesB,
                    trimmedA |-> a, trimmedB |-> b,
                    result |-> IF Len(a) # Len(b) \/ Len(a) < 2
                               THEN Throws
                               ELSE calculateCorrelation(direct.pricesA, direct.pricesB)]
  /\ UNCHANGED << now, ticks, issued, s3, pc, route, input, tickers, cacheKey, cached,
                  historicalData, correlations, res, io, readAt, replaced, lastRefresh,
                  promises, settled >>

NextTrim == Correlate

SpecTrim == InitTrim /\ [][NextTrim]_vars

\* The last n elements of a series, in their order.
LastOf(a, n) == [k \in 1..n |-> a[Len(a) - n + k]]

\* C22: whatever the two lengths, the empty series included, both series
\* are cut to exactly m = min(len A, len B) points, the last m elements of
\* each in their original order.
C22_TrimmedToMinLength ==
  (direct # Nothing /\ direct.at = "returned") =>
    LET m == Min(Len(direct.pricesA), Len(direct.pricesB))
    IN  /\ Len(direct.trimmedA) = m
        /\ Len(direct.trimmedB) = m
        /\ direct.trimmedA = LastOf(direct.pricesA, m)
        /\ direct.trimmedB = LastOf(direct.pricesB, m)

\* The same for two series that both have a price: the case the engine
\* reaches, where the claim holds.
C22_TrimmedWhenNonEmpty ==
  (direct # Nothing /\ direct.at = "returned"
     /\ Len(direct.pricesA) > 0 /\ Len(direct.pricesB) > 0) =>
    LET m == Min(Len(direct.pricesA), Len(direct.pricesB))
    IN  /\ Len(direct.trimmedA) = m
        /\ Len(direct.trimmedB) = m
        /\ direct.trimmedA = LastOf(direct.pricesA, m)
        /\ direct.trimmedB = LastOf(direct.pricesB, m)


(***************************************************************************)
(* The routes over a bucket that already holds entries, with a provider    *)
(* that answers little and an engine that may throw                        *)
(***************************************************************************)

\* stocks.js:7
SENTIMENT_CACHE_KEY ==
  << "s", "e", "n", "t", "i", "m", "e", "n", "t", "/",
     "a", "n", "a", "l", "y", "s", "i", "s", ".", "j", "s", "o", "n" >>

\* What the sentiment route stored (stocks.js:142).
SentimentBody == [analysis |-> "sentiment"]

\* The entry of another ticker set, computed at time 0.
OtherKey == getCacheKey(<< tKO, tV >>)
OtherBody ==
  toJSON(calculateCorrelationMatrix((tV :> Ok(Rising)) @@ (tKO :> Ok(Rising)),
                                    << tKO, tV >>, 0))

\* The entries no request of the model is for.
ForeignEntries == (SENTIMENT_CACHE_KEY :> SentimentBody) @@ (OtherKey :> OtherBody)

\* An entry under the key of MA and V whose calculatedAt is missing, and
\* one whose calculatedAt is no date.
Unstamped == [stocks |-> << tMA, tV >>, matrix |-> << << One, JsonNull >>, << JsonNull, One >> >>, edges |-> << >>]
Misstamped ==
  [stocks |-> << tMA, tV >>, matrix |-> << << One, JsonNull >>, << JsonNull, One >> >>, edges |-> << >>,
   calculatedAt |-> [text |-> "yesterday"]]

FaultKey == getCacheKey(<< tMA, tV >>)

InitFaults ==
  /\ NoRequests
  /\ direct = Nothing
  /\ s3 \in { ForeignEntries,
              (FaultKey :> Unstamped) @@ ForeignEntries,
              (FaultKey :> Misstamped) @@ ForeignEntries }

FaultQueries == { Str(tV \o Comma \o tMA) }
FaultBodies == { Arr(<< tMA, tV >>) }

\* Both symbols answered with more than 10 prices, one of them, or none: a
\* symbol fails, or has a series of 10 prices.
FaultMarkets ==
  { (tV :> Ok(Rising)) @@ (tMA :> Ok(Bumpy)),
    (tV :> Ok(Rising)) @@ (tMA :> NoAnswer),
    (tV :> Ok(Sparse)) @@ (tMA :> Ok(Bumpy)),
    (tV :> NoAnswer) @@ (tMA :> Ok(Sparse)),
    (tV :> NoAnswer) @@ (tMA :> NoAnswer) }

NextFaults ==
  \/ \E q \in FaultQueries : Quiet /\ GetCorrelations(1, q)
  \/ \E p \in Slots, o \in {"ok", "NoSuchKey", "error"} : GetFromS3Returns(p, o)
  \/ \E b \in FaultBodies : Quiet /\ RefreshCorrelations(1, b)
  \/ \E p \in Slots, m \in FaultMarkets : CalculateReturns(p, m)
  \/ \E p \in Slots, m \in FaultMarkets : CalculateThrows(p, m)
  \/ \E p \in Slots, o \in {"ok", "error"} : SaveToS3Returns(p, o)
  \/ \E d \in TickSteps : Quiet /\ Tick(d)

SpecFaults == InitFaults /\ [][NextFaults]_vars

\* The handler in slot p has its response, sent after a put that succeeded.
Stored(p) ==
  pc[p] = "done" /\ io[p] # << >> /\ LastCall(p).op = "put" /\ LastCall(p).outcome = "ok"

C23_WitnessOne ==
  \E p \in Slots :
    /\ Stored(p)
    /\ Len(WithMoreThan(p, 10)) = 1
    /\ res[p].status = 200 /\ ~res[p].fromCache
    /\ res[p].body.matrix = << << One >> >> /\ res[p].body.edges = << >>


\* The code of the 500 a route answers from its catch.
CatchCode(p) == IF route[p] = "get" THEN "CORRELATION_ERROR" ELSE "REFRESH_ERROR"

\* C25: when calculateCorrelationMatrix throws, after a stale entry was
\* read or during a refresh, the caller gets an error response, not the
\* stale entry; the computation is not retried, no put is attempted and
\* the bucket is left as it was.
C25_ComputeFailureSurfaces ==
  [][ \A p \in Slots :
        (pc[p] = "calculate" /\ pc'[p] = "done") =>
          /\ res'[p] = ErrorResponse(500, CatchCode(p))
          /\ Len(io'[p]) = Len(io[p])
          /\ FetchedSymbols(io'[p]) = tickers[p]
          /\ \A k \in 1..Len(io'[p]) : io'[p][k].op # "put"
          /\ correlations'[p] = Nothing
          /\ s3' = s3 ]_vars

\* A GET request read an entry a day old, the engine threw, and the
\* request has its 500; the entry is still the one it read.
C25_Witness ==
  \E p \in Slots :
    /\ pc[p] = "done" /\ route[p] = "get"
    /\ ReadEntry(p)
    /\ cached[p] \notin {Unstamped, Misstamped}
    /\ AgeRead(p) >= DayMs
    /\ LastCall(p).op = "fetch"
    /\ res[p] = ErrorResponse(500, "CORRELATION_ERROR")
    /\ s3[cacheKey[p]] = cached[p]

\* The same during a refresh, over an entry that stays.
C25_WitnessRefresh ==
  \E p \in Slots :
    /\ pc[p] = "done" /\ route[p] = "refresh"
    /\ io[p] # << >> /\ LastCall(p).op = "fetch"
    /\ res[p] = ErrorResponse(500, "REFRESH_ERROR")
    /\ FaultKey \in DOMAIN s3

\* The calls of a handler, by kind, in the order it makes them: the cache
\* read of GET, one chart request per ticker, the put.
StepsOf(p) ==
  (IF route[p] = "get" THEN << "get" >> ELSE << >>)
    \o [i \in 1..Len(tickers[p]) |-> "fetch"] \o << "put" >>

IsPrefix(a, b) == Len(a) <= Len(b) /\ \A k \in 1..Len(a) : a[k] = b[k]

\* The calls a handler has made are a beginning of StepsOf, and each was
\* made after the one before it had settled with success.
InStepOrder(p) ==
  LET log == io[p]
  IN  /\ IsPrefix([k \in 1..Len(log) |-> log[k].op], StepsOf(p))
      /\ \A k \in 1..Len(log) :
           /\ (log[k].op = "fetch" /\ route[p] = "get") =>
                log[1].outcome \in {"ok", "NoSuchKey"}
           /\ log[k].op = "put" =>
                \A j \in 1..(k - 1) : log[j].outcome \in {"ok", "NoSuchKey", "error"}

\* The response of a handler is sent when it stops, after every call it
\* made has settled; a computed result is sent after its put.
RespondsLast(p) ==
  /\ pc[p] = "done" <=> res[p] # NoResponse
  /\ res[p] # NoResponse =>
       /\ \A k \in 1..Len(io[p]) : io[p][k].outcome # "sent"
       /\ (res[p].status = 200 /\ res[p].fromCache) => Len(io[p]) = 1
       /\ (res[p].status = 200 /\ ~res[p].fromCache) =>
            LastCall(p).op = "put" /\ LastCall(p).outcome = "ok"

\* A response is sent where a handler stops, and is not sent again or
\* changed until the slot takes its next request.
RespondsOnce(p) ==
  res'[p] # res[p] =>
    \/ pc'[p] = "done" /\ (pc[p] # "done" \/ issued' = issued + 1)
    \/ res'[p] = NoResponse /\ issued' = issued + 1

\* C26: a request reads the cache, then (unless the entry is fresh)
\* computes, then puts, then responds, each step at most once; the response
\* never precedes the settling of the put, and there is exactly one
\* response per request. Stated of the state every step leads to.
C26_StepOrder ==
  [][\A p \in Slots : InStepOrder(p)' /\ RespondsLast(p)' /\ RespondsOnce(p)]_vars

\* A GET request that found nothing went through the four steps: one read,
\* one chart request per ticker, one put, then its response.
C26_Witness ==
  \E p \in Slots :
    /\ pc[p] = "done" /\ route[p] = "get"
    /\ [k \in 1..Len(io[p]) |-> io[p][k].op] = << "get", "fetch", "fetch", "put" >>
    /\ io[p][1].outcome = "NoSuchKey"
    /\ res[p].status = 200 /\ ~res[p].fromCache

\* The entry has a calculatedAt that reads as a date.
HasStamp(entry) == "calculatedAt" \in DOMAIN entry /\ IsDate(entry.calculatedAt)

\* C28: an entry whose calculatedAt is missing or is no date is never
\* served as fresh: the GET request that reads it goes on to compute, and
\* when its put has succeeded the entry is overwritten with the new result
\* and the answer is that result, fromCache false.
C28_UnstampedEntryNotServed ==
  \A p \in Slots :
    (ReadEntry(p) /\ ~HasStamp(cached[p])) =>
      /\ ~(res[p].status = 200 /\ res[p].fromCache)
      /\ pc[p] \in {"calculate", "saveToS3", "done"}
      /\ FetchedSymbols(io[p]) = tickers[p]
      /\ Stored(p) =>
           /\ replaced[p] = cached[p]
           /\ s3[cacheKey[p]] = toJSON(correlations[p])
           /\ res[p] = ResultResponse(toJSON(correlations[p]), FALSE, FALSE)

\* A GET request read the entry without calculatedAt, computed, and its
\* put replaced that entry.
C28_Witness ==
  \E p \in Slots :
    /\ Stored(p) /\ route[p] = "get"
    /\ cached[p] = Unstamped
    /\ replaced[p] = Unstamped
    /\ s3[cacheKey[p]] # Unstamped
    /\ res[p].status = 200 /\ ~res[p].fromCache

\* The same for the entry whose calculatedAt is no date.
C28_WitnessNoDate ==
  \E p \in Slots :
    /\ Stored(p) /\ route[p] = "get"
    /\ cached[p] = Misstamped
    /\ replaced[p] = Misstamped
    /\ s3[cacheKey[p]] # Misstamped
    /\ res[p].status = 200 /\ ~res[p].fromCache

\* Every S3 call the handler in slot p has made is for the key of its
\* tickers.
OwnKeyOnly(p) ==
  \A k \in 1..Len(io[p]) :
    io[p][k].op \in {"get", "put"} => io[p][k].arg = getCacheKey(tickers[p])

\* C29: a request for a ticker list reads and writes only the entry under
\* the key of that list; the entries under every other key, those of other
\* ticker lists and of the sentiment route, stay as they were, and no
\* entry is ever deleted.
C29_KeyIsolation ==
  [][ /\ \A p \in Slots : OwnKeyOnly(p)'
      /\ DOMAIN s3 \subseteq DOMAIN s3'
      /\ \A key \in DOMAIN s3' :
           (key \notin DOMAIN s3 \/ s3'[key] # s3[key]) =>
             \E p \in Slots : pc[p] = "saveToS3" /\ key = getCacheKey(tickers[p])
      /\ \A key \in {SENTIMENT_CACHE_KEY, OtherKey} :
           key \in DOMAIN s3 => (key \in DOMAIN s3' /\ s3'[key] = s3[key]) ]_vars

\* A refresh for MA and V has written its entry beside the two that were
\* in the bucket, the sentiment entry and the entry of KO and V.
C29_Witness ==
  \E p \in Slots :
    /\ Stored(p) /\ route[p] = "refresh"
    /\ DOMAIN s3 = {SENTIMENT_CACHE_KEY, OtherKey, FaultKey}
    /\ s3[FaultKey] = toJSON(correlations[p])
    /\ s3[SENTIMENT_CACHE_KEY] = SentimentBody
    /\ s3[OtherKey] = OtherBody

\* A chart request of the handler in slot p failed.
FailedSome(p) == \E k \in 1..Len(FetchLog(p)) : FetchLog(p)[k].outcome = "error"

\* The entry the handler in slot p read names fewer stocks than the request
\* names tickers, and is less than a day old.
ReadFreshDegraded(p) ==
  /\ ReadEntry(p)
  /\ HasStamp(cached[p])
  /\ AgeRead(p) < DayMs
  /\ Len(cached[p].stocks) < Len(tickers[p])

\* C30: a result computed while chart requests failed is put under the key
\* of the full ticker list like any other, and a GET request for these
\* tickers that reads it within 24 hours is answered with it, fromCache
\* true, without any chart request.
C30_DegradedResultCached ==
  \A p \in Slots :
    /\ (Stored(p) /\ FailedSome(p)) =>
         /\ LastCall(p).arg = getCacheKey(tickers[p])
         /\ getCacheKey(tickers[p]) \in DOMAIN s3
         /\ s3[getCacheKey(tickers[p])] = toJSON(correlations[p])
         /\ Len(correlations[p].stocks) < Len(tickers[p])
    /\ ReadFreshDegraded(p) =>
         /\ pc[p] = "done"
         /\ res[p] = ResultResponse(cached[p], TRUE, FALSE)
         /\ io[p] = << GetCall(getCacheKey(tickers[p]), "ok") >>

\* A refresh whose chart requests failed stored a result without the two
\* stocks; 23 hours later a GET request for the same tickers is answered
\* with it from the cache.
C30_Witness ==
  \E p \in Slots :
    /\ ReadFreshDegraded(p)
    /\ now = 23 * HourMs
    /\ lastRefresh # Nothing
    /\ sort(lastRefresh.tickers) = sort(tickers[p])
    /\ lastRefresh.body = cached[p]
    /\ res[p].status = 200 /\ res[p].fromCache
    /\ res[p].body.stocks = << >>

(***************************************************************************)
(* Two GET requests for the same tickers at once                           *)
(***************************************************************************)

\* An entry for V and MA computed an hour before the service started.
EarlierEntry ==
  toJSON(calculateCorrelationMatrix((tV :> Ok(Rising)) @@ (tMA :> Ok(Bumpy)),
                                    << tV, tMA >>, 0 - HourMs))

InitRace ==
  /\ NoRequests
  /\ direct = Nothing
  /\ s3 \in { << >>, (FaultKey :> EarlierEntry) }

RaceQueries == { Str(tV \o Comma \o tMA), Str(tMA \o Comma \o tV) }

\* Either slot accepts a request while the other handler is suspended.
NextRace ==
  \/ \E p \in Slots, q \in RaceQueries : GetCorrelations(p, q)
  \/ \E p \in Slots, o \in {"ok", "NoSuchKey", "error"} : GetFromS3Returns(p, o)
  \/ \E p \in Slots, m \in Markets : CalculateReturns(p, m)
  \/ \E p \in Slots, o \in {"ok", "error"} : SaveToS3Returns(p, o)
  \/ \E d \in TickSteps : Quiet /\ Tick(d)

SpecRace == InitRace /\ [][NextRace]_vars

\* Both handlers read the cache before either wrote: they found the same
\* thing, nothing or the earlier entry, and both went on to compute.
BothMissed(p, q) ==
  /\ p # q
  /\ route[p] = "get" /\ route[q] = "get"
  /\ cacheKey[p] = cacheKey[q]
  /\ cached[p] \in {JsonNull, EarlierEntry} /\ cached[q] = cached[p]
  /\ Calculated(p) /\ Calculated(q)

\* C24: two GET requests for the same tickers that both read the cache
\* before either writes both recompute and both put; each answers with its
\* own result, fromCache false, and when both are done the entry is the
\* result of the put that completed last, whole.
C24_BothRecomputeLastPutWins ==
  \A p, q \in Slots :
    (BothMissed(p, q) /\ Stored(p) /\ Stored(q)) =>
      /\ res[p] = ResultResponse(toJSON(correlations[p]), FALSE, FALSE)
      /\ res[q] = ResultResponse(toJSON(correlations[q]), FALSE, FALSE)
      /\ \E w \in {p, q} :
           \E l \in {p, q} \ {w} :
             /\ replaced[w] = toJSON(correlations[l])
             /\ replaced[l] = cached[l]
             /\ s3[cacheKey[p]] = toJSON(correlations[w])

\* Two requests that found no entry computed different results; the entry
\* is the result of the one whose put came second.
C24_Witness ==
  \E p, q \in Slots :
    /\ BothMissed(p, q) /\ Stored(p) /\ Stored(q)
    /\ cached[p] = JsonNull
    /\ correlations[p] # correlations[q]
    /\ replaced[q] = toJSON(correlations[p])
    /\ s3[cacheKey[p]] = toJSON(correlations[q])

\* The same over an entry both found stale.
C24_WitnessStale ==
  \E p, q \in Slots :
    /\ BothMissed(p, q) /\ Stored(p) /\ Stored(q)
    /\ cached[p] = EarlierEntry
    /\ correlations[p] # correlations[q]
    /\ replaced[q] = toJSON(correlations[p])
    /\ s3[cacheKey[p]] = toJSON(correlations[q])


(***************************************************************************)
(* Tickers that contain the separator of the cache key                     *)
(***************************************************************************)

tA  == << "A" >>
tC  == << "C" >>
tAB == << "A", "-", "B" >>
tBC == << "B", "-", "C" >>

\* The lists A-B, C and A, B-C, as a refresh and as GET requests.
HyphenBodies == { Arr(<< tAB, tC >>), Arr(<< tA, tBC >>) }
HyphenQueries == { Str(tAB \o Comma \o tC), Str(tA \o Comma \o tBC) }

HyphenMarkets ==
  { (tA :> Ok(Rising)) @@ (tC :> Ok(Wavy)) @@ (tAB :> Ok(Falling)) @@ (tBC :> Ok(Bumpy)),
    (tA :> Ok(Rising)) @@ (tC :> NoAnswer) @@ (tAB :> Ok(Flat)) @@ (tBC :> Ok(Rising)) }

NextHyphen ==
  \/ \E q \in HyphenQueries : Quiet /\ GetCorrelations(1, q)
  \/ \E p \in Slots, o \in {"ok", "NoSuchKey", "error"} : GetFromS3Returns(p, o)
  \/ \E b \in HyphenBodies : Quiet /\ RefreshCorrelations(1, b)
  \/ \E p \in Slots, m \in HyphenMarkets : CalculateReturns(p, m)
  \/ \E p \in Slots, o \in {"ok", "error"} : SaveToS3Returns(p, o)
  \/ \E d \in TickSteps : Quiet /\ Tick(d)

SpecHyphen == Init /\ [][NextHyphen]_vars

\* C27: two ticker lists have the same cache key only if they hold the
\* same tickers with the same multiplicities, tickers that contain '-'
\* included: a request whose key is the key the latest refresh wrote under
\* names the tickers of that refresh.
C27_KeyInjective ==
  \A p \in Slots :
    (lastRefresh # Nothing /\ cacheKey[p] = lastRefresh.key) =>
      sort(tickers[p]) = sort(lastRefresh.tickers)

\* What follows from a shared key: a GET request is answered from the
\* cache with the result a refresh computed for other tickers.
C27_AnsweredForOtherTickers ==
  \E p \in Slots :
    /\ pc[p] = "done" /\ route[p] = "get"
    /\ res[p].status = 200 /\ res[p].fromCache
    /\ lastRefresh # Nothing /\ res[p].body = lastRefresh.body
    /\ sort(tickers[p]) # sort(lastRefresh.tickers)

=============================================================================
